---- MODULE Spec2Model ----
(***************************************************************************)
(* Model of soulmemory-rs/src/games/traits/buffered_event_flags.rs:        *)
(* the EventFlag record, its two constructors, its Display rendering, and  *)
(* the BufferedEventFlags trait whose provided method get_buffered_flags   *)
(* exchanges the lock-guarded Vec<EventFlag> for an empty one.             *)
(*                                                                         *)
(* Numbers.  TLC integers are 32-bit signed, so an i32 is an Int, and a    *)
(* u32 is kept as two 16-bit limbs [hi, lo] standing for hi * 2^16 + lo.   *)
(* Text.  A string is a sequence of one-character strings.                 *)
(***************************************************************************)
EXTENDS Bags, FiniteSets, Integers, Naturals, Sequences, TLC

VARIABLES
    storage,    \* the Vec<EventFlag> inside Arc<Mutex<..>>
    lock,       \* the thread holding the Mutex, or NoThread
    poisoned,   \* the Mutex's poison flag: a holder has panicked
    pc,         \* thread -> position in its operation
    pending,    \* producer -> the record it has constructed, or None
    ret,        \* consumer -> value of the mem::replace expression
    batches,    \* history: the batches get_buffered_flags has returned
    appended,   \* history: the records pushed so far
    threads,    \* the threads that run in this specification
    limits,     \* how many appends and drains this specification follows
    live,       \* flag index -> current state tracked by the implementor
    queried,    \* history: the last get_event_flag_state call
    peeked,     \* history: what a caller of the handle last got from the Vec
    inp,        \* inputs of the constructor / Display specification
    made,       \* the record constructed from inp, or None
    shownValue, \* Display of made.value, or <<>>
    shown       \* Display of made, or <<>>

vars == <<storage, lock, poisoned, pc, pending, ret, batches, appended, threads,
          limits, live, queried, peeked, inp, made, shownValue, shown>>

bufferVars == <<storage, lock, poisoned, pc, pending, ret, batches, appended, threads,
                limits, live, queried, peeked>>
recordVars == <<inp, made, shownValue, shown>>

\* "no record": an absent Option<EventFlag>; an absent text is <<>>
None == [tag |-> "None"]

NoThread == "nobody"

(***************************************************************************)
(* u32 and i32                                                             *)
(***************************************************************************)
Limb == 2^16

U32(n) == [hi |-> n \div Limb, lo |-> n % Limb]

U32_MAX == [hi |-> Limb - 1, lo |-> Limb - 1]

I32_MAX == 2147483647

I32_MIN == -2147483647 - 1

U32Zero == [hi |-> 0, lo |-> 0]

\* u32::wrapping_add(1)
U32WrappingInc(u) ==
    IF u.lo = Limb - 1
    THEN [hi |-> (u.hi + 1) % Limb, lo |-> 0]
    ELSE [hi |-> u.hi, lo |-> u.lo + 1]

\* quotient and remainder of a u32 by ten
U32Div10(u) ==
    LET t == (u.hi % 10) * Limb + u.lo
    IN  [quot |-> [hi |-> u.hi \div 10, lo |-> t \div 10], rem |-> t % 10]

\* the magnitude core::fmt takes of an i32: x as u32 when non-negative,
\* (!(x as u32)).wrapping_add(1) otherwise; the complement of a negative x
\* is the number -(x + 1)
I32UnsignedAbs(q) ==
    IF q >= 0 THEN U32(q) ELSE U32WrappingInc(U32(-(q + 1)))

(***************************************************************************)
(* Text                                                                    *)
(***************************************************************************)
DigitChar == <<"0", "1", "2", "3", "4", "5", "6", "7", "8", "9">>

Digit(d) == DigitChar[d + 1]

\* a sequence without its last element
Front(s) == SubSeq(s, 1, Len(s) - 1)

RECURSIVE Repeat(_, _)
Repeat(c, n) == IF n <= 0 THEN <<>> ELSE <<c>> \o Repeat(c, n - 1)

RECURSIVE U32Digits(_)
U32Digits(u) ==
    IF u = U32Zero THEN <<>>
    ELSE LET d == U32Div10(u) IN U32Digits(d.quot) \o <<Digit(d.rem)>>

\* the decimal digits core::fmt produces for an unsigned magnitude
U32Decimal(u) == IF u = U32Zero THEN <<"0">> ELSE U32Digits(u)

\* Formatter::pad_integral for a decimal integer without '+' or '#' flags:
\* a '-' for negatives, then the digits; when the text is shorter than the
\* width, fill characters go to the left (right alignment).  A format
\* without a width is width 0: nothing is ever shorter.
pad_integral(is_nonnegative, digits, width, fill) ==
    LET body == (IF is_nonnegative THEN <<>> ELSE <<"-">>) \o digits
    IN  IF Len(body) >= width
        THEN body
        ELSE Repeat(fill, width - Len(body)) \o body

\* zero-padded decimal of a natural number, as chrono writes date fields
ZeroPadded(n, width) == pad_integral(TRUE, U32Decimal(U32(n)), width, "0")

(***************************************************************************)
(* chrono: DateTime<Local> as its local calendar fields, and the format    *)
(* items used by the Display of EventFlag.  nano >= 10^9 is chrono's       *)
(* representation of a leap second.                                        *)
(***************************************************************************)
DateTime(y, mo, d, h, mi, s, n) ==
    [year |-> y, month |-> mo, day |-> d, hour |-> h, minute |-> mi,
     second |-> s, nano |-> n]

\* %Y: four digits, zero-padded; a year outside 0..9999 carries a sign
FormatYear(y) ==
    IF y >= 0 /\ y <= 9999
    THEN ZeroPadded(y, 4)
    ELSE <<IF y < 0 THEN "-" ELSE "+">> \o ZeroPadded(IF y < 0 THEN -y ELSE y, 4)

\* time.format("%Y-%m-%d %H:%M:%S%.3f")
DateTime_format(t) ==
    FormatYear(t.year) \o <<"-">> \o ZeroPadded(t.month, 2) \o <<"-">>
        \o ZeroPadded(t.day, 2) \o <<" ">> \o ZeroPadded(t.hour, 2) \o <<":">>
        \o ZeroPadded(t.minute, 2) \o <<":">>
        \o ZeroPadded(t.second + t.nano \div 1000000000, 2) \o <<".">>
        \o ZeroPadded((t.nano % 1000000000) \div 1000000, 3)

(***************************************************************************)
(* EventFlagValue and EventFlag                                            *)
(***************************************************************************)
State(b) == [tag |-> "State", state |-> b]

Quantity(q) == [tag |-> "Quantity", quantity |-> q]

EventFlag(time, flag, value) == [time |-> time, flag |-> flag, value |-> value]

\* mutation of from_state: the bool is stored as a number
from_state_AsQuantity(time, flag, state) ==
    EventFlag(time, flag, Quantity(IF state THEN 1 ELSE 0))

from_state(time, flag, state) == EventFlag(time, flag, State(state))

from_quantity(time, flag, quantity) == EventFlag(time, flag, Quantity(quantity))

\* Display of bool
bool_fmt(b) == IF b THEN <<"t", "r", "u", "e">> ELSE <<"f", "a", "l", "s", "e">>

\* mutation of i32_fmt: the magnitude is written without its sign
i32_fmt_Unsigned(q) == pad_integral(TRUE, U32Decimal(I32UnsignedAbs(q)), 0, " ")

\* Display of i32 with "{}"
i32_fmt(q) == pad_integral(q >= 0, U32Decimal(I32UnsignedAbs(q)), 0, " ")

\* Display of u32 with "{: >10}"
FlagWidth == 10

\* mutation of u32_fmt_padded: "{: <10}", the padding goes to the right
u32_fmt_LeftAligned(u) ==
    LET digits == U32Decimal(u)
    IN  digits \o Repeat(" ", FlagWidth - Len(digits))

\* mutation of u32_fmt_padded: the minimum width is 8
u32_fmt_Width8(u) == pad_integral(TRUE, U32Decimal(u), 8, " ")

u32_fmt_padded(u) == pad_integral(TRUE, U32Decimal(u), FlagWidth, " ")

EventFlagValue_fmt(v) ==
    IF v.tag = "State" THEN bool_fmt(v.state) ELSE i32_fmt(v.quantity)

Separator == <<" ", "-", " ">>

EventFlag_fmt(e) ==
    DateTime_format(e.time) \o Separator \o u32_fmt_padded(e.flag)
        \o Separator \o EventFlagValue_fmt(e.value)

(***************************************************************************)
(* Specification of the constructors and of Display: Init draws the        *)
(* arguments, the actions construct a record and render it.                *)
(***************************************************************************)
ExampleTime == DateTime(2023, 1, 1, 0, 0, 0, 123000000)

SampleTimes ==
    { ExampleTime,
      DateTime(1999, 12, 31, 23, 59, 59, 999999999),
      DateTime(987, 6, 5, 4, 3, 2, 7000000),
      DateTime(2024, 2, 29, 12, 5, 9, 0),
      DateTime(2016, 12, 31, 23, 59, 59, 1500000000),
      DateTime(10000, 1, 1, 0, 0, 0, 1000000),
      DateTime(-4, 2, 29, 1, 1, 1, 0) }

SampleFlags ==
    { U32Zero, U32(7), U32(42), U32(65536), U32(999999999), U32(1000000000),
      U32(I32_MAX), U32_MAX }

SampleQuantities == { I32_MIN, -5, -1, 0, 9, 10, 42, I32_MAX }

RecordInputs ==
    [time : SampleTimes, flag : SampleFlags, state : BOOLEAN,
     quantity : SampleQuantities]

BufferIdle ==
    /\ storage = <<>>
    /\ lock = NoThread
    /\ poisoned = FALSE
    /\ pc = <<>>
    /\ pending = <<>>
    /\ ret = <<>>
    /\ batches = <<>>
    /\ appended = <<>>
    /\ threads = {}
    /\ limits = <<>>
    /\ live = <<>>
    /\ queried = None
    /\ peeked = [count |-> 0, op |-> "none", seen |-> <<>>]

InitRecord ==
    /\ inp \in RecordInputs
    /\ made = None
    /\ shownValue = <<>>
    /\ shown = <<>>
    /\ BufferIdle

Call_from_state ==
    /\ made = None
    /\ made' = from_state(inp.time, inp.flag, inp.state)
    /\ UNCHANGED <<inp, shownValue, shown, bufferVars>>

Call_from_quantity ==
    /\ made = None
    /\ made' = from_quantity(inp.time, inp.flag, inp.quantity)
    /\ UNCHANGED <<inp, shownValue, shown, bufferVars>>

Display_EventFlagValue ==
    /\ made # None
    /\ shownValue = <<>>
    /\ shownValue' = EventFlagValue_fmt(made.value)
    /\ UNCHANGED <<inp, made, shown, bufferVars>>

Display_EventFlag ==
    /\ made # None
    /\ shown = <<>>
    /\ shown' = EventFlag_fmt(made)
    /\ UNCHANGED <<inp, made, shownValue, bufferVars>>

NextRecord ==
    \/ Call_from_state
    \/ Call_from_quantity
    \/ Display_EventFlagValue
    \/ Display_EventFlag

SpecRecord == InitRecord /\ [][NextRecord]_vars

(***************************************************************************)
(* The flag buffer.  A producer thread observes a change, builds a record, *)
(* locks the storage, pushes the record and unlocks.  A consumer thread    *)
(* calls get_buffered_flags: lock().unwrap(), mem::replace with Vec::new(),*)
(* then the guard is dropped as the call returns the old contents.         *)
(***************************************************************************)
MaxAppends == 3

MaxDrains == 3

MaxAccesses == 1

\* the shorter runs followed when a third party acts beside the two threads
FewAppends == 2

FewDrains == 2

Producers == {"p1", "p2"}

Consumers == {"c1", "c2"}

Callers == {"x1"}

ObservedTimes == { DateTime(2023, 1, 1, 0, 0, 0, 123000000) }

ObservedFlags == { U32(1), U32(2) }

ObservedQuantities == { -5 }

\* Vec::new()
Vec_new == <<>>

\* Vec::push
Vec_push(vec, value) == Append(vec, value)

\* mutation of mem_replace: the old contents are copied out and stay behind
mem_replace_Clone(dest, src) == [dest |-> dest, result |-> dest]

\* mutation of mem_replace: the record pushed last is left behind
mem_replace_KeepLast(dest, src) ==
    IF dest = <<>> THEN [dest |-> src, result |-> dest]
    ELSE [dest |-> <<dest[Len(dest)]>>, result |-> Front(dest)]

\* mutation of mem_replace: the old contents are popped off one by one, so
\* they come out last-pushed first
mem_replace_PopAll(dest, src) ==
    [dest |-> src, result |-> [i \in 1..Len(dest) |-> dest[Len(dest) + 1 - i]]]

\* mutation of mem_replace: a record equal to an earlier one of the old
\* contents is dropped from the result
mem_replace_Dedup(dest, src) ==
    LET first == {i \in 1..Len(dest) : \A j \in 1..(i - 1) : dest[j] # dest[i]}
        kept[n \in 0..Len(dest)] ==
            IF n = 0 THEN <<>>
            ELSE IF n \in first THEN Append(kept[n - 1], dest[n])
                 ELSE kept[n - 1]
    IN  [dest |-> src, result |-> kept[Len(dest)]]

\* mem::replace(dest, src): src is moved into dest, the old value is returned
mem_replace(dest, src) == [dest |-> src, result |-> dest]

ActiveProducers == threads \cap Producers

ActiveConsumers == threads \cap Consumers

\* appends begun and not yet over, and those completed
AppendsBegun ==
    Len(appended) + Cardinality({p \in ActiveProducers : pending[p] # None})

\* calls of get_buffered_flags begun and not yet over, and those completed
DrainsBegun ==
    Len(batches) + Cardinality({c \in ActiveConsumers : pc[c] # "idle"})

InitBuffer(active, maxAppends, maxDrains) ==
    /\ storage = Vec_new
    /\ lock = NoThread
    /\ poisoned = FALSE
    /\ threads = active
    /\ limits = [appends |-> maxAppends, drains |-> maxDrains]
    /\ pc = [t \in active |-> "idle"]
    /\ pending = [p \in active \cap Producers |-> None]
    /\ ret = [c \in active \cap Consumers |-> <<>>]
    /\ batches = <<>>
    /\ appended = <<>>
    /\ live = [f \in ObservedFlags |-> FALSE]
    /\ queried = None
    /\ peeked = [count |-> 0, op |-> "none", seen |-> <<>>]
    /\ inp = None
    /\ made = None
    /\ shownValue = <<>>
    /\ shown = <<>>

Init == InitBuffer({"p1", "c1"}, MaxAppends, MaxDrains)

\* the producer observes the game setting a flag (the live state of a
\* boolean flag becomes the observed one) and builds the record to append
P_Observe(p) ==
    /\ pc[p] = "idle"
    /\ AppendsBegun < limits.appends
    /\ \E time \in ObservedTimes, flag \in ObservedFlags :
          \/ \E state \in BOOLEAN :
                /\ pending' = [pending EXCEPT
                                  ![p] = from_state(time, flag, state)]
                /\ live' = [live EXCEPT ![flag] = state]
          \/ \E quantity \in ObservedQuantities :
                /\ pending' = [pending EXCEPT
                                  ![p] = from_quantity(time, flag, quantity)]
                /\ live' = live
    /\ pc' = [pc EXCEPT ![p] = "ready"]
    /\ UNCHANGED <<storage, lock, ret, batches, appended, threads, limits, poisoned, queried,
                   peeked, recordVars>>

\* access_flag_storage().lock().unwrap() in the producer
P_Lock(p) ==
    /\ pc[p] = "ready"
    /\ lock = NoThread
    /\ ~poisoned
    /\ lock' = p
    /\ pc' = [pc EXCEPT ![p] = "locked"]
    /\ UNCHANGED <<storage, pending, ret, batches, appended, threads, limits, poisoned, live,
                   queried, peeked, recordVars>>

\* guard.push(record)
P_Push(p) ==
    /\ pc[p] = "locked"
    /\ lock = p
    /\ storage' = Vec_push(storage, pending[p])
    /\ appended' = Append(appended, [rec |-> pending[p], by |-> p,
                                     after |-> Len(batches)])
    /\ pc' = [pc EXCEPT ![p] = "pushed"]
    /\ UNCHANGED <<lock, pending, ret, batches, threads, limits, poisoned, live, queried,
                   peeked, recordVars>>

\* the producer's guard is dropped
P_Unlock(p) ==
    /\ pc[p] = "pushed"
    /\ lock = p
    /\ lock' = NoThread
    /\ pending' = [pending EXCEPT ![p] = None]
    /\ pc' = [pc EXCEPT ![p] = "idle"]
    /\ UNCHANGED <<storage, ret, batches, appended, threads, limits, poisoned, live, queried,
                   peeked, recordVars>>

\* get_buffered_flags is entered
C_Call(c) ==
    /\ \/ pc[c] = "idle" /\ DrainsBegun < limits.drains
       \/ pc[c] = "panicked"      \* the caller caught the panic and calls again
    /\ pc' = [pc EXCEPT ![c] = "called"]
    /\ UNCHANGED <<storage, lock, pending, ret, batches, appended, threads,
                   limits, poisoned, live, queried, peeked, recordVars>>

\* mutation of C_Lock: the call goes on without waiting for the holder, as
\* with a try_lock whose failure is ignored
C_Lock_NoWait(c) ==
    /\ pc[c] = "called"
    /\ ~poisoned
    /\ lock' = c
    /\ pc' = [pc EXCEPT ![c] = "locked"]
    /\ UNCHANGED <<storage, pending, ret, batches, appended, threads, limits,
                   poisoned, live, queried, peeked, recordVars>>

\* let mut event_flags = self.access_flag_storage().lock().unwrap();
\* on a Mutex that is not poisoned: lock() is Ok(guard)
C_Lock(c) ==
    /\ pc[c] = "called"
    /\ lock = NoThread
    /\ ~poisoned
    /\ lock' = c
    /\ pc' = [pc EXCEPT ![c] = "locked"]
    /\ UNCHANGED <<storage, pending, ret, batches, appended, threads, limits, poisoned, live,
                   queried, peeked, recordVars>>

\* mem::replace(&mut event_flags, Vec::new())
C_Replace(c) ==
    /\ pc[c] = "locked"
    /\ lock = c
    /\ LET r == mem_replace(storage, Vec_new)
       IN  /\ storage' = r.dest
           /\ ret' = [ret EXCEPT ![c] = r.result]
    /\ pc' = [pc EXCEPT ![c] = "replaced"]
    /\ UNCHANGED <<lock, pending, batches, appended, threads, limits, poisoned, live, queried,
                   peeked, recordVars>>

\* mutation of C_Return: the guard is leaked, the Mutex stays locked
C_Return_KeepLock(c) ==
    /\ pc[c] = "replaced"
    /\ lock = c
    /\ batches' = Append(batches, [recs |-> ret[c], by |-> c,
                                   upto |-> Len(appended)])
    /\ ret' = [ret EXCEPT ![c] = <<>>]
    /\ pc' = [pc EXCEPT ![c] = "idle"]
    /\ UNCHANGED <<storage, lock, pending, appended, threads, limits,
                   poisoned, live, queried, peeked, recordVars>>

\* the guard is dropped and the old contents are returned to the caller
C_Return(c) ==
    /\ pc[c] = "replaced"
    /\ lock = c
    /\ lock' = NoThread
    /\ batches' = Append(batches, [recs |-> ret[c], by |-> c,
                                   upto |-> Len(appended)])
    /\ ret' = [ret EXCEPT ![c] = <<>>]
    /\ pc' = [pc EXCEPT ![c] = "idle"]
    /\ UNCHANGED <<storage, pending, appended, threads, limits, poisoned, live, queried, peeked,
                   recordVars>>

Next ==
    \/ \E p \in ActiveProducers : P_Observe(p)
    \/ \E p \in ActiveProducers : P_Lock(p)
    \/ \E p \in ActiveProducers : P_Push(p)
    \/ \E p \in ActiveProducers : P_Unlock(p)
    \/ \E c \in ActiveConsumers : C_Call(c)
    \/ \E c \in ActiveConsumers : C_Lock(c)
    \/ \E c \in ActiveConsumers : C_Replace(c)
    \/ \E c \in ActiveConsumers : C_Return(c)

Spec == Init /\ [][Next]_vars

(***************************************************************************)
(* The same two threads under fair scheduling: a thread that can take a    *)
(* step inside an operation eventually takes it, and a thread that keeps   *)
(* finding the lock free again and again eventually acquires it.  Starting *)
(* an append or a call is up to the thread.                                *)
(***************************************************************************)
InitFair == InitBuffer({"p1", "c1"}, FewAppends, FewDrains)

Fairness ==
    /\ SF_vars(P_Lock("p1"))
    /\ WF_vars(P_Push("p1"))
    /\ WF_vars(P_Unlock("p1"))
    /\ SF_vars(C_Lock("c1"))
    /\ WF_vars(C_Replace("c1"))
    /\ WF_vars(C_Return("c1"))

SpecFair == InitFair /\ [][Next]_vars /\ Fairness

(***************************************************************************)
(* Two producers and two draining threads on the same storage.             *)
(***************************************************************************)
InitMPMC == InitBuffer({"p1", "p2", "c1", "c2"}, FewAppends, FewDrains)

SpecMPMC == InitMPMC /\ [][Next]_vars

(***************************************************************************)
(* Panics.  A producer that panics inside its lock hold drops the guard    *)
(* while unwinding, which poisons the Mutex.  On a poisoned Mutex lock()   *)
(* still acquires the Mutex and returns Err(PoisonError) with the guard    *)
(* inside; unwrap() panics with that error, so the caller holds the lock   *)
(* while the panic runs and releases it when unwinding drops the error.    *)
(* The call never reaches mem::replace.                                    *)
(***************************************************************************)
P_Panic(p) ==
    /\ pc[p] \in {"locked", "pushed"}
    /\ lock = p
    /\ poisoned' = TRUE
    /\ lock' = NoThread
    /\ pc' = [pc EXCEPT ![p] = "panicked"]
    /\ UNCHANGED <<storage, pending, ret, batches, appended, threads, limits,
                   live, queried, peeked, recordVars>>

\* mutation of C_LockPoisoned: the poison is ignored and the guard taken
\* out of the error, as with unwrap_or_else(PoisonError::into_inner)
C_LockPoisoned_IntoInner(c) ==
    /\ pc[c] = "called"
    /\ lock = NoThread
    /\ poisoned
    /\ lock' = c
    /\ pc' = [pc EXCEPT ![c] = "locked"]
    /\ UNCHANGED <<storage, pending, ret, batches, appended, threads, limits,
                   poisoned, live, queried, peeked, recordVars>>

\* self.access_flag_storage().lock().unwrap() on a poisoned Mutex
C_LockPoisoned(c) ==
    /\ pc[c] = "called"
    /\ lock = NoThread
    /\ poisoned
    /\ lock' = c
    /\ pc' = [pc EXCEPT ![c] = "panicking"]
    /\ UNCHANGED <<storage, pending, ret, batches, appended, threads,
                   limits, poisoned, live, queried, peeked, recordVars>>

\* unwinding out of get_buffered_flags drops the PoisonError and with it
\* the guard: the lock is released, the poison stays
C_Unwind(c) ==
    /\ pc[c] = "panicking"
    /\ lock = c
    /\ lock' = NoThread
    /\ pc' = [pc EXCEPT ![c] = "panicked"]
    /\ UNCHANGED <<storage, pending, ret, batches, appended, threads,
                   limits, poisoned, live, queried, peeked, recordVars>>

InitPanic == InitBuffer({"p1", "c1", "c2"}, FewAppends, FewDrains)

NextPanic ==
    \/ Next
    \/ \E p \in ActiveProducers : P_Panic(p)
    \/ \E c \in ActiveConsumers : C_LockPoisoned(c)
    \/ \E c \in ActiveConsumers : C_Unwind(c)

SpecPanic == InitPanic /\ [][NextPanic]_vars

(***************************************************************************)
(* get_event_flag_state: required by the trait, given no body there; the   *)
(* implementor answers from the live state it tracks.  A thread calls it   *)
(* while it is outside get_buffered_flags.                                 *)
(***************************************************************************)
\* mutation of get_event_flag_state: answered from the buffered history,
\* the last record buffered for the flag
get_event_flag_state_FromBuffer(self, event_flag) ==
    LET hits == SelectSeq(storage, LAMBDA e : e.flag = event_flag
                                              /\ e.value.tag = "State")
    IN  IF hits = <<>> THEN FALSE ELSE hits[Len(hits)].value.state

get_event_flag_state(self, event_flag) == self[event_flag]

GetEventFlagState(t) ==
    /\ pc[t] = "idle"
    /\ \E event_flag \in ObservedFlags :
          queried' = [flag |-> event_flag,
                      result |-> get_event_flag_state(live, event_flag),
                      holder |-> lock]
    /\ UNCHANGED <<storage, lock, pc, pending, ret, batches, appended,
                   threads, limits, poisoned, live, peeked, recordVars>>

NextQuery ==
    \/ Next
    \/ \E c \in ActiveConsumers : GetEventFlagState(c)

InitQuery == InitBuffer({"p1", "c1"}, FewAppends, FewDrains)

SpecQuery == InitQuery /\ [][NextQuery]_vars

(***************************************************************************)
(* access_flag_storage hands out the Arc<Mutex<Vec<EventFlag>>> itself.    *)
(* A caller that is neither the producer nor get_buffered_flags takes the  *)
(* handle, locks it and uses the Vec: it reads the contents or pops the    *)
(* last record.                                                            *)
(***************************************************************************)
ActiveCallers == threads \cap Callers

X_Access(x) ==
    /\ pc[x] = "idle"
    /\ peeked.count < MaxAccesses
    /\ pc' = [pc EXCEPT ![x] = "ready"]
    /\ UNCHANGED <<storage, lock, pending, ret, batches, appended, threads,
                   limits, poisoned, live, queried, peeked, recordVars>>

X_Lock(x) ==
    /\ pc[x] = "ready"
    /\ lock = NoThread
    /\ ~poisoned
    /\ lock' = x
    /\ pc' = [pc EXCEPT ![x] = "locked"]
    /\ UNCHANGED <<storage, pending, ret, batches, appended, threads, limits, poisoned, live,
                   queried, peeked, recordVars>>

\* guard.clone(): the contents are read and stay where they are
X_Read(x) ==
    /\ pc[x] = "locked"
    /\ lock = x
    /\ peeked' = [count |-> peeked.count + 1, op |-> "read", seen |-> storage]
    /\ pc' = [pc EXCEPT ![x] = "used"]
    /\ UNCHANGED <<storage, lock, pending, ret, batches, appended, threads,
                   limits, poisoned, live, queried, recordVars>>

\* guard.pop(): the last record, if there is one, is removed
X_Pop(x) ==
    /\ pc[x] = "locked"
    /\ lock = x
    /\ storage' = (IF storage = <<>> THEN <<>> ELSE Front(storage))
    /\ peeked' = [count |-> peeked.count + 1, op |-> "pop",
                  seen |-> IF storage = <<>> THEN <<>>
                           ELSE <<storage[Len(storage)]>>]
    /\ pc' = [pc EXCEPT ![x] = "used"]
    /\ UNCHANGED <<lock, pending, ret, batches, appended, threads, limits, poisoned, live,
                   queried, recordVars>>

X_Unlock(x) ==
    /\ pc[x] = "used"
    /\ lock = x
    /\ lock' = NoThread
    /\ pc' = [pc EXCEPT ![x] = "idle"]
    /\ UNCHANGED <<storage, pending, ret, batches, appended, threads, limits, poisoned, live,
                   queried, peeked, recordVars>>

InitHandle == InitBuffer({"p1", "c1", "x1"}, FewAppends, FewDrains)

NextHandle ==
    \/ Next
    \/ \E x \in ActiveCallers : X_Access(x)
    \/ \E x \in ActiveCallers : X_Lock(x)
    \/ \E x \in ActiveCallers : X_Read(x)
    \/ \E x \in ActiveCallers : X_Pop(x)
    \/ \E x \in ActiveCallers : X_Unlock(x)

SpecHandle == InitHandle /\ [][NextHandle]_vars

(***************************************************************************)
(* Histories read by the properties of the buffer                          *)
(***************************************************************************)
\* the records of a sequence of returned batches, in return order
RECURSIVE Flatten(_)
Flatten(bs) ==
    IF bs = <<>> THEN <<>> ELSE Flatten(Front(bs)) \o bs[Len(bs)].recs

\* the batch a call holds between its exchange and its return; the lock
\* lets at most one call be there
InHand ==
    IF \E c \in ActiveConsumers : pc[c] = "replaced"
    THEN ret[CHOOSE c \in ActiveConsumers : pc[c] = "replaced"]
    ELSE <<>>

\* every record taken out of the storage so far, in the order taken
Taken == Flatten(batches) \o InHand

\* the records pushed so far, in push order
AppendedRecs == [j \in 1..Len(appended) |-> appended[j].rec]

Occurrences(seq, r) == Cardinality({i \in 1..Len(seq) : seq[i] = r})

Range(seq) == {seq[i] : i \in 1..Len(seq)}

\* the records pushed while exactly n batches had been returned
PushedAfter(n) ==
    LET sel == SelectSeq(appended, LAMBDA a : a.after = n)
    IN  [i \in 1..Len(sel) |-> sel[i].rec]

\* the push numbered j is the k-th record of the i-th returned batch
InBatch(j, i) ==
    LET start == Len(Flatten(SubSeq(batches, 1, i - 1)))
        k == j - start
    IN  /\ k \in 1..Len(batches[i].recs)
        /\ batches[i].recs[k] = appended[j].rec

(***************************************************************************)
(* C1.  No loss and no duplication under concurrency: in every reachable   *)
(* state of every interleaving of producer appends with calls of           *)
(* get_buffered_flags, each record appended so far occurs exactly as often *)
(* in the batches taken so far plus the storage as it was appended; a      *)
(* record pushed while a call is in progress is in that call's batch or in *)
(* the storage left behind, never in both, never in neither.  (A batch     *)
(* counts from the exchange on: the call holds it until it returns.)       *)
(***************************************************************************)
C1_NoLossNoDuplication ==
    \A r \in Range(AppendedRecs) \cup Range(Taken \o storage) :
        Occurrences(Taken \o storage, r) = Occurrences(AppendedRecs, r)

\* a push has happened while a call of get_buffered_flags was waiting for
\* the lock, after an earlier batch was returned
C1_Witness ==
    /\ pc["c1"] = "called"
    /\ pc["p1"] = "pushed"
    /\ Len(batches) >= 1
    /\ batches[1].recs # <<>>

(***************************************************************************)
(* C2.  Drain completeness: after N >= 0 appends to an empty storage with  *)
(* no drain in between, get_buffered_flags takes a sequence of length N    *)
(* whose i-th element is the i-th record appended, and the storage is      *)
(* empty right after the exchange.                                         *)
(***************************************************************************)
C2_DrainCompleteness ==
    /\ \A c \in ActiveConsumers :
          pc[c] = "replaced" =>
              /\ ret[c] = PushedAfter(Len(batches))
              /\ storage = <<>>
    /\ \A i \in 1..Len(batches) : batches[i].recs = PushedAfter(i - 1)

\* a call has just exchanged a storage holding two or more records
C2_Witness ==
    /\ pc["c1"] = "replaced"
    /\ Len(ret["c1"]) >= 2
    /\ ret["c1"][1] # ret["c1"][2]

(***************************************************************************)
(* C3.  Order preservation across batches: with a single producer, in      *)
(* every reachable state the batches taken so far, concatenated in drain   *)
(* order, followed by the storage, are exactly the sequence of records     *)
(* appended so far.                                                        *)
(***************************************************************************)
C3_OrderPreserved == Taken \o storage = AppendedRecs

\* records lie in two returned batches and in the storage
C3_Witness ==
    /\ Len(batches) >= 2
    /\ batches[1].recs # <<>>
    /\ batches[2].recs # <<>>
    /\ storage # <<>>
    /\ batches[1].recs[1] # storage[1]

(***************************************************************************)
(* C4.  Drain isolation: a record whose append begins (takes the lock)     *)
(* after a call of get_buffered_flags has returned is not in the batch     *)
(* that call returned, in any later state; it is in the batch of the next  *)
(* call that returns after the append.                                     *)
(***************************************************************************)
C4_DrainIsolation ==
    \A j \in 1..Len(appended) :
        /\ \A i \in 1..Len(batches) :
              i <= appended[j].after => ~InBatch(j, i)
        /\ appended[j].after < Len(batches)
              => InBatch(j, appended[j].after + 1)

\* a record appended after the first batch was returned has been returned
\* in the second
C4_Witness ==
    /\ Len(batches) >= 2
    /\ batches[1].recs # <<>>
    /\ \E j \in 1..Len(appended) : appended[j].after = 1

(***************************************************************************)
(* C5.  Empty drain is idempotent: get_buffered_flags on an empty storage  *)
(* returns the empty sequence and leaves the storage empty; a drain with   *)
(* no append since the drain before it returns the empty sequence.         *)
(***************************************************************************)
C5_EmptyDrain ==
    /\ \A c \in ActiveConsumers :
          (pc[c] = "replaced" /\ \A j \in 1..Len(appended) :
                                     appended[j].after # Len(batches))
              => ret[c] = <<>> /\ storage = <<>>
    /\ \A i \in 1..Len(batches) :
          batches[i].upto = (IF i = 1 THEN 0 ELSE batches[i - 1].upto)
              => batches[i].recs = <<>>

\* a second drain followed a non-empty first one with no append between
C5_Witness ==
    /\ Len(batches) >= 3
    /\ batches[1].recs # <<>>
    /\ batches[2].upto = batches[1].upto
    /\ batches[3].upto = batches[1].upto
    /\ batches[3].recs = <<>>

(***************************************************************************)
(* C6.  Sole removal path.  As claimed: the storage is changed only by an  *)
(* append (one record more, at the end, the earlier ones unchanged) or by  *)
(* get_buffered_flags (the storage becomes empty), and nothing the trait   *)
(* exposes, access_flag_storage included, lets a caller remove a part of   *)
(* the storage or read it without draining it.                             *)
(***************************************************************************)
C6_SoleRemovalPath ==
    /\ [][storage' # storage =>
            \/ /\ Len(storage') = Len(storage) + 1
               /\ SubSeq(storage', 1, Len(storage)) = storage
            \/ storage' = <<>>]_vars
    /\ [][peeked' = peeked]_vars

(***************************************************************************)
(* C6, amended.  The trait's own operations change the storage in one way  *)
(* only: get_buffered_flags, holding the lock, makes it empty, and never   *)
(* removes a part or reads without draining; a producer's append, holding  *)
(* the lock, adds exactly one record at the end.  Every other change or    *)
(* read of the storage is made by a caller that took the handle from       *)
(* access_flag_storage and holds its lock.                                 *)
(***************************************************************************)
C6_SoleRemovalByTrait ==
    /\ [][storage' # storage =>
            \/ /\ lock \in Producers
               /\ Len(storage') = Len(storage) + 1
               /\ SubSeq(storage', 1, Len(storage)) = storage
            \/ /\ lock \in Consumers
               /\ storage' = <<>>
            \/ lock \in Callers]_vars
    /\ [][peeked' # peeked => lock \in Callers]_vars
    /\ [][\A c \in ActiveConsumers :
            (pc[c] = "locked" /\ pc'[c] = "replaced")
                => ret'[c] = storage /\ storage' = <<>>]_vars

\* a caller of the handle has removed the last of several records, and
\* get_buffered_flags has returned a batch as well
C6_Witness ==
    /\ pc["x1"] = "used"
    /\ peeked.op = "pop"
    /\ peeked.seen # <<>>
    /\ storage # <<>>
    /\ Len(batches) >= 1

(***************************************************************************)
(* C7.  get_event_flag_state is independent of the buffer: it can be       *)
(* called and completes whoever holds the buffer's lock, it leaves the     *)
(* lock and the storage as they are, and its result is the live state of   *)
(* the flag, whatever is buffered or has been drained.                     *)
(***************************************************************************)
C7_FlagStateIndependent ==
    /\ [](\A c \in ActiveConsumers :
            pc[c] = "idle" => ENABLED GetEventFlagState(c))
    /\ [][\A c \in ActiveConsumers :
            GetEventFlagState(c) =>
                /\ storage' = storage
                /\ lock' = lock
                /\ batches' = batches
                /\ queried'.result = live[queried'.flag]]_vars

\* the call answered TRUE while the producer held the lock, with nothing
\* left in the storage about that flag
C7_Witness ==
    /\ queried # None
    /\ queried.holder = "p1"
    /\ queried.result = TRUE
    /\ storage = <<>>
    /\ Len(batches) >= 1

(***************************************************************************)
(* C11.  Mutual exclusion and atomic exchange: at most one thread is       *)
(* inside a lock hold at any time; a call of get_buffered_flags takes the  *)
(* lock once, on entry, and reads the old contents and resets the storage  *)
(* in one step of that hold, so that no append takes effect between the    *)
(* taking of the batch and the storage being empty, nor anywhere else in   *)
(* the hold.                                                               *)
(***************************************************************************)
\* the threads that are between acquiring the lock and dropping its guard
Holding ==
    {t \in threads :
        pc[t] \in {"locked", "pushed", "replaced", "used", "panicking"}}

C11_MutualExclusionAtomicExchange ==
    /\ [](Cardinality(Holding) <= 1 /\ \A t \in Holding : lock = t)
    /\ [][\A c \in ActiveConsumers :
            /\ (lock # c /\ lock' = c) => pc[c] = "called" /\ pc'[c] = "locked"
            /\ (pc[c] = "locked" /\ pc'[c] # "locked")
                  => /\ pc'[c] = "replaced"
                     /\ lock = c /\ lock' = c
                     /\ ret'[c] = storage
                     /\ storage' = <<>>
            /\ pc[c] \in {"locked", "replaced"}
                  => /\ appended' = appended
                     /\ storage' \in {storage, <<>>}]_vars

\* the call holds a non-empty batch and the lock while the producer has a
\* record ready and waits
C11_Witness ==
    /\ pc["c1"] = "replaced"
    /\ lock = "c1"
    /\ ret["c1"] # <<>>
    /\ pc["p1"] = "ready"

(***************************************************************************)
(* C12.  Lock released on return: a thread that is outside                 *)
(* get_buffered_flags does not hold the lock; the step that returns        *)
(* leaves the lock free, and a producer that is ready to append while the  *)
(* consumer is outside a call can take the lock.                           *)
(***************************************************************************)
C12_LockReleasedOnReturn ==
    /\ [](\A c \in ActiveConsumers :
            pc[c] \in {"idle", "called"} => lock # c)
    /\ [](\A c \in ActiveConsumers, p \in ActiveProducers :
            (pc[c] = "idle" /\ pc[p] = "ready") => ENABLED P_Lock(p))
    /\ [][\A c \in ActiveConsumers :
            (pc[c] = "replaced" /\ pc'[c] = "idle") => lock' = NoThread]_vars

\* after a batch was returned the producer has taken the lock while the
\* consumer works on the batch
C12_Witness ==
    /\ Len(batches) >= 1
    /\ batches[Len(batches)].recs # <<>>
    /\ pc["c1"] = "idle"
    /\ pc["p1"] = "locked"
    /\ lock = "p1"

(***************************************************************************)
(* C13.  Always-progress: with one producer and one consumer that hold the *)
(* lock for a single append or a single exchange, no state with an         *)
(* operation in progress is stuck, and under fair scheduling every call of *)
(* get_buffered_flags that has started returns and every append that has   *)
(* started completes.                                                      *)
(***************************************************************************)
C13_AlwaysProgress ==
    /\ []((\E t \in threads : pc[t] # "idle") => ENABLED Next)
    /\ (pc["c1"] = "called") ~> (pc["c1"] = "idle")
    /\ (pc["p1"] = "ready") ~> (pc["p1"] = "idle")

\* a call has started and waits while the producer holds the lock
C13_Witness ==
    /\ pc["c1"] = "called"
    /\ lock = "p1"
    /\ Len(batches) >= 1

(***************************************************************************)
(* C14.  Poisoned lock is fatal: once a thread has panicked while holding  *)
(* the lock, every call of get_buffered_flags that goes on from its lock   *)
(* acquisition ends in a panic, a repeated call included; none returns a   *)
(* batch, and the storage stays as the panic left it (it is not reset to   *)
(* empty).  The panicking call holds the lock until it has unwound, so     *)
(* the calls panic one after the other.                                    *)
(***************************************************************************)
C14_PoisonedLockFatal ==
    /\ [](poisoned => \A c \in ActiveConsumers :
                         /\ pc[c] \notin {"locked", "replaced"}
                         /\ pc[c] = "panicking" => lock = c)
    /\ [][poisoned => storage' = storage /\ batches' = batches]_vars
    /\ [][\A c \in ActiveConsumers :
            /\ (poisoned /\ pc[c] = "called" /\ pc'[c] # "called")
                  => lock = NoThread /\ pc'[c] = "panicking"
            /\ (pc[c] = "panicking" /\ pc'[c] # "panicking")
                  => pc'[c] = "panicked" /\ lock' = NoThread /\ poisoned'
            /\ (pc[c] = "panicked" /\ pc'[c] # "panicked")
                  => pc'[c] = "called"]_vars

\* the producer panicked after a push; one later call is panicking with
\* the lock held while the other waits for it; the pushed records are still
\* in the storage
C14_Witness ==
    /\ poisoned
    /\ pc["p1"] = "panicked"
    /\ pc["c1"] = "panicking"
    /\ lock = "c1"
    /\ pc["c2"] = "called"
    /\ storage # <<>>

\* the number of pushes that had happened when the batch before the i-th
\* returned one was returned
UptoBefore(i) == IF i = 1 THEN 0 ELSE batches[i - 1].upto

\* flags [1, 2, 1] with states [true, false, true], appended in this order
RepeatedFlagRecords ==
    LET time == CHOOSE t \in ObservedTimes : TRUE
    IN  << from_state(time, U32(1), TRUE),
           from_state(time, U32(2), FALSE),
           from_state(time, U32(1), TRUE) >>

(***************************************************************************)
(* C15.  No deduplication and no capacity bound: records equal in every    *)
(* field are all kept, so the length of every batch is the number of       *)
(* pushes since the batch before it was taken, and each of these pushes is *)
(* in the batch at its position; when the pushes before the first drain    *)
(* are flags [1, 2, 1] with states [true, false, true], the first batch is *)
(* exactly these three records in this order.                              *)
(***************************************************************************)
C15_NoDedupNoBound ==
    /\ \A i \in 1..Len(batches) :
          /\ Len(batches[i].recs) = batches[i].upto - UptoBefore(i)
          /\ \A k \in 1..Len(batches[i].recs) :
                batches[i].recs[k] = appended[UptoBefore(i) + k].rec
    /\ \A c \in ActiveConsumers :
          pc[c] = "replaced" =>
              Len(ret[c]) = Len(appended) - UptoBefore(Len(batches) + 1)
    /\ (Len(batches) >= 1 /\ PushedAfter(0) = RepeatedFlagRecords)
          => batches[1].recs = RepeatedFlagRecords

\* the three records, the first and the third equal in every field, were
\* pushed and then returned as the first batch
C15_Witness ==
    /\ Len(batches) >= 1
    /\ PushedAfter(0) = RepeatedFlagRecords
    /\ Len(batches[1].recs) = 3
    /\ batches[1].recs[1] = batches[1].recs[3]
    /\ batches[1].recs[1].flag = U32(1)
    /\ batches[1].recs[2].flag = U32(2)

\* the records producer p has pushed so far, in the order it pushed them
PushedBy(p) ==
    LET sel == SelectSeq(appended, LAMBDA a : a.by = p)
    IN  [i \in 1..Len(sel) |-> sel[i].rec]

\* what stands, in the sequence seq, at the places of the pushes of p
PlacesOf(p, seq) ==
    LET at[n \in 0..Len(seq)] ==
            IF n = 0 THEN <<>>
            ELSE IF n <= Len(appended) /\ appended[n].by = p
                 THEN Append(at[n - 1], seq[n])
                 ELSE at[n - 1]
    IN  at[Len(seq)]

(***************************************************************************)
(* C16.  Exactly-once delivery with several producers and several         *)
(* draining threads: each record pushed so far occurs in the batches       *)
(* taken (in lock-acquisition order) plus the storage exactly as often as  *)
(* it was pushed, no returned batch overlaps another, and the records of   *)
(* each producer stand in the concatenation of the batches and the storage *)
(* in the order in which that producer pushed them.                        *)
(***************************************************************************)
C16_ExactlyOnceManyThreads ==
    LET delivered == Taken \o storage
        pushed == AppendedRecs
    IN  /\ \A r \in Range(pushed) \cup Range(delivered) :
              Occurrences(delivered, r) = Occurrences(pushed, r)
        /\ Len(delivered) = Len(appended)
        /\ \A i \in 1..Len(batches) :
              Len(Flatten(SubSeq(batches, 1, i))) = batches[i].upto
        /\ \A p \in ActiveProducers : PlacesOf(p, delivered) = PushedBy(p)

\* both draining threads have returned a batch, and one batch holds a
\* record of each producer
C16_Witness ==
    /\ Len(batches) = 2
    /\ batches[1].by # batches[2].by
    /\ Len(appended) = 2
    /\ appended[1].by # appended[2].by
    /\ appended[1].rec # appended[2].rec
    /\ \E i \in 1..2 : Len(batches[i].recs) = 2

(***************************************************************************)
(* Reading a rendered text back: used to state what a rendering must be    *)
(* without using the operators that produce it.                            *)
(***************************************************************************)
IsDigit(c) == \E d \in 0..9 : Digit(d) = c

DigitVal(c) == CHOOSE d \in 0..9 : Digit(d) = c

AllDigits(s) == Len(s) >= 1 /\ \A i \in 1..Len(s) : IsDigit(s[i])

\* the value of a short digit string (date and time fields)
RECURSIVE ParseNat(_)
ParseNat(s) ==
    IF s = <<>> THEN 0 ELSE ParseNat(Front(s)) * 10 + DigitVal(s[Len(s)])

\* minus the value of a digit string, so that "2147483648" is readable
RECURSIVE ParseNegative(_)
ParseNegative(s) ==
    IF s = <<>> THEN 0 ELSE ParseNegative(Front(s)) * 10 - DigitVal(s[Len(s)])

\* the u32 a digit string denotes
RECURSIVE ParseU32(_)
ParseU32(s) ==
    IF s = <<>> THEN U32Zero
    ELSE LET acc == ParseU32(Front(s))
             low == acc.lo * 10 + DigitVal(s[Len(s)])
         IN  [hi |-> acc.hi * 10 + low \div Limb, lo |-> low % Limb]

\* plain decimal: digits only, no leading zero except for "0" itself
PlainDecimal(s) == AllDigits(s) /\ (Len(s) > 1 => s[1] # "0")

\* length of the longest prefix of s made of characters satisfying the test
RECURSIVE SpacesAtFront(_)
SpacesAtFront(s) ==
    IF s # <<>> /\ s[1] = " " THEN 1 + SpacesAtFront(Tail(s)) ELSE 0

RECURSIVE DigitsAtFront(_)
DigitsAtFront(s) ==
    IF s # <<>> /\ IsDigit(s[1]) THEN 1 + DigitsAtFront(Tail(s)) ELSE 0

ExampleText ==
    <<"2", "0", "2", "3", "-", "0", "1", "-", "0", "1", " ",
      "0", "0", ":", "0", "0", ":", "0", "0", ".", "1", "2",
      "3", " ", "-", " ", " ", " ", " ", " ", " ", " ", " ",
      " ", " ", "7", " ", "-", " ", "t", "r", "u", "e">>

\* the fields of s, positions a..b, are the two-or-more digit number n
FieldIs(s, a, b, n) == AllDigits(SubSeq(s, a, b)) /\ ParseNat(SubSeq(s, a, b)) = n

\* after a year text of n characters, s goes on with -MM-DD HH:MM:SS.mmm
AfterYear(s, n, t) ==
    /\ Len(s) >= n + 19
    /\ s[n + 1] = "-"
    /\ FieldIs(s, n + 2, n + 3, t.month)
    /\ s[n + 4] = "-"
    /\ FieldIs(s, n + 5, n + 6, t.day)
    /\ s[n + 7] = " "
    /\ FieldIs(s, n + 8, n + 9, t.hour)
    /\ s[n + 10] = ":"
    /\ FieldIs(s, n + 11, n + 12, t.minute)
    /\ s[n + 13] = ":"
    /\ FieldIs(s, n + 14, n + 15, t.second + t.nano \div 1000000000)
    /\ s[n + 16] = "."
    /\ FieldIs(s, n + 17, n + 19, (t.nano % 1000000000) \div 1000000)

\* s starts with the time t as YYYY-MM-DD HH:MM:SS.mmm
TimeLayout(s, t) ==
    /\ Len(s) >= 23
    /\ FieldIs(s, 1, 4, t.year)
    /\ AfterYear(s, 4, t)

\* the number of characters of a year text: four digits for 0..9999, else a
\* sign and the digits, four or more
YearWidth(y) ==
    LET a == IF y < 0 THEN -y ELSE y
    IN  IF y >= 0 /\ y <= 9999 THEN 4
        ELSE IF a < 10000 THEN 5
        ELSE IF a < 100000 THEN 6
        ELSE 7

\* s starts with the year y: YYYY for 0..9999, else '+' or '-' and the
\* digits of the year, zero-padded to four
YearLayout(s, y) ==
    LET n == YearWidth(y)
        a == IF y < 0 THEN -y ELSE y
    IN  /\ Len(s) >= n
        /\ IF y >= 0 /\ y <= 9999
           THEN FieldIs(s, 1, 4, y)
           ELSE /\ s[1] = (IF y < 0 THEN "-" ELSE "+")
                /\ FieldIs(s, 2, n, a)
                /\ n > 5 => s[2] # "0"

(***************************************************************************)
(* C8.  Record construction is total and faithful: from_state is enabled   *)
(* for every time, flag and bool and yields a record with exactly that     *)
(* time and flag and the value State(state); from_quantity likewise with   *)
(* the value Quantity(quantity); the arguments are left as they were.      *)
(***************************************************************************)
C8_ConstructionFaithful ==
    /\ [](made = None => ENABLED Call_from_state /\ ENABLED Call_from_quantity)
    /\ [][ /\ Call_from_state =>
                /\ made' = [time |-> inp.time, flag |-> inp.flag,
                            value |-> [tag |-> "State", state |-> inp.state]]
                /\ inp' = inp
           /\ Call_from_quantity =>
                /\ made' = [time |-> inp.time, flag |-> inp.flag,
                            value |-> [tag |-> "Quantity",
                                       quantity |-> inp.quantity]]
                /\ inp' = inp ]_vars

\* a record built from the largest flag and the smallest quantity
C8_Witness ==
    /\ made # None
    /\ made.flag = [hi |-> 65535, lo |-> 65535]
    /\ made.value.tag = "Quantity"
    /\ made.value.quantity = I32_MIN

(***************************************************************************)
(* C9.  Record display layout: the time as YYYY-MM-DD HH:MM:SS.mmm, then   *)
(* " - ", then the flag in decimal, right-aligned in a field of minimum    *)
(* width 10 (spaces on the left only, all digits kept), then " - ", then   *)
(* the rendered value; the example of flag 7, true, 2023-01-01             *)
(* 00:00:00.123 has nine spaces before the 7.                              *)
(***************************************************************************)
C9_RecordLayout ==
    shown # <<>> =>
        LET s == shown
            k == SpacesAtFront(SubSeq(s, 27, Len(s)))
            n == DigitsAtFront(SubSeq(s, 27 + k, Len(s)))
            digits == SubSeq(s, 27 + k, 26 + k + n)
        IN  /\ TimeLayout(s, made.time)
            /\ SubSeq(s, 24, 26) = <<" ", "-", " ">>
            /\ PlainDecimal(digits)
            /\ ParseU32(digits) = made.flag
            /\ k = (IF n < 10 THEN 10 - n ELSE 0)
            /\ SubSeq(s, 27 + k + n, 29 + k + n) = <<" ", "-", " ">>
            /\ SubSeq(s, 30 + k + n, Len(s)) = EventFlagValue_fmt(made.value)
            /\ (/\ made.time = ExampleTime
                /\ made.flag = [hi |-> 0, lo |-> 7]
                /\ made.value = [tag |-> "State", state |-> TRUE])
                    => s = ExampleText

(***************************************************************************)
(* C9, amended.  The layout of C9 with the year as chrono writes it: four  *)
(* digits for a year in 0..9999, and a sign followed by the digits (zero-  *)
(* padded to four) for any other year, which moves all that follows to the *)
(* right; then -MM-DD HH:MM:SS.mmm, " - ", the flag right-aligned in a     *)
(* field of minimum width 10, " - " and the rendered value.                *)
(***************************************************************************)
C9_RecordLayoutByYear ==
    shown # <<>> =>
        LET s == shown
            y == YearWidth(made.time.year)
            from == y + 23
            k == SpacesAtFront(SubSeq(s, from, Len(s)))
            n == DigitsAtFront(SubSeq(s, from + k, Len(s)))
            digits == SubSeq(s, from + k, from + k + n - 1)
        IN  /\ YearLayout(s, made.time.year)
            /\ AfterYear(s, y, made.time)
            /\ SubSeq(s, y + 20, y + 22) = <<" ", "-", " ">>
            /\ PlainDecimal(digits)
            /\ ParseU32(digits) = made.flag
            /\ k = (IF n < 10 THEN 10 - n ELSE 0)
            /\ SubSeq(s, from + k + n, from + k + n + 2) = <<" ", "-", " ">>
            /\ SubSeq(s, from + k + n + 3, Len(s)) = EventFlagValue_fmt(made.value)
            /\ (/\ made.time = ExampleTime
                /\ made.flag = [hi |-> 0, lo |-> 7]
                /\ made.value = [tag |-> "State", state |-> TRUE])
                    => s = ExampleText

\* a record of the year 10000 with flag 7 has been rendered: the text starts
\* with "+10000-" and the 7 stands two columns further right than in the
\* example
C9_Witness ==
    /\ shown # <<>>
    /\ made.time.year = 10000
    /\ made.flag = [hi |-> 0, lo |-> 7]
    /\ SubSeq(shown, 1, 7) = <<"+", "1", "0", "0", "0", "0", "-">>
    /\ shown[38] = "7"

(***************************************************************************)
(* C10.  Value display: State(true) is "true", State(false) is "false",    *)
(* Quantity(q) is the plain signed decimal of q ('-' before a negative,    *)
(* no padding, no '+'); the record from_quantity(t, 42, -5) renders        *)
(* ending in "- -5".                                                       *)
(***************************************************************************)
C10_ValueDisplay ==
    /\ shownValue # <<>> =>
        LET v == made.value
            s == shownValue
        IN  IF v.tag = "State"
            THEN s = (IF v.state THEN <<"t", "r", "u", "e">>
                                 ELSE <<"f", "a", "l", "s", "e">>)
            ELSE IF v.quantity < 0
            THEN /\ s[1] = "-"
                 /\ PlainDecimal(Tail(s))
                 /\ ParseNegative(Tail(s)) = v.quantity
            ELSE /\ PlainDecimal(s)
                 /\ ParseNegative(s) = -v.quantity
    /\ (/\ shown # <<>>
        /\ made.flag = [hi |-> 0, lo |-> 42]
        /\ made.value = [tag |-> "Quantity", quantity |-> -5])
            => SubSeq(shown, Len(shown) - 3, Len(shown)) = <<"-", " ", "-", "5">>

\* the record from_quantity(t, 42, -5) and its value have been rendered
C10_Witness ==
    /\ shownValue = <<"-", "5">>
    /\ shown # <<>>
    /\ made.flag = [hi |-> 0, lo |-> 42]
    /\ made.value = [tag |-> "Quantity", quantity |-> -5]

(***************************************************************************)
(* C17.  The flag field is exactly 10 characters for every u32: the        *)
(* largest flag 4294967295 has 10 digits, so the padded flag is never      *)
(* wider than the minimum width; in a rendered record the 10 characters    *)
(* after the time and " - " are 10 minus the digit count in spaces         *)
(* followed by all the digits of the flag, and the value starts at the     *)
(* same column whatever the flag: 16 columns after the end of the time,    *)
(* which is column 40 after a 23-character time.                           *)
(***************************************************************************)
C17_FlagFieldAlwaysTen ==
    /\ U32Decimal(U32_MAX) = <<"4", "2", "9", "4", "9", "6", "7", "2", "9", "5">>
    /\ \A u \in SampleFlags : Len(u32_fmt_padded(u)) = 10
    /\ shown # <<>> =>
          LET timeEnd == YearWidth(made.time.year) + 19
              field == SubSeq(shown, timeEnd + 4, timeEnd + 13)
              k == SpacesAtFront(field)
              digits == SubSeq(field, k + 1, 10)
          IN  /\ Len(shown) >= timeEnd + 17
              /\ made.time.year \in 0..9999 => timeEnd + 17 = 40
              /\ SubSeq(shown, timeEnd + 1, timeEnd + 3) = <<" ", "-", " ">>
              /\ k <= 9
              /\ PlainDecimal(digits)
              /\ ParseU32(digits) = made.flag
              /\ SubSeq(shown, timeEnd + 14, timeEnd + 16) = <<" ", "-", " ">>
              /\ SubSeq(shown, timeEnd + 17, Len(shown))
                    = EventFlagValue_fmt(made.value)

\* a record with the largest flag has been rendered: its ten digits fill
\* the field
C17_Witness ==
    /\ shown # <<>>
    /\ made.flag = U32_MAX
    /\ shown[27] = "4"
    /\ shown[36] = "5"
    /\ shown[40] # " "

====
